---- MODULE Spec2Model ----
(***************************************************************************)
(* A model of amatn/config.py: the configuration manager AMATNConfig, its  *)
(* environment-driven _load_configuration, validate_exchange_config, and   *)
(* the lazily initialised Firebase application / Firestore client handles. *)
(*                                                                         *)
(* Strings are sequences of one-character strings, so that str.split and   *)
(* str.upper are computed, not assumed.  The Firebase SDK (firebase_admin) *)
(* is outside the repository: its registry firebase_admin._apps is a       *)
(* process-wide variable, and its constructors either raise or return an   *)
(* object, chosen nondeterministically.                                    *)
(***************************************************************************)
EXTENDS Naturals, Sequences, FiniteSets, TLC

\* ------------------------------------------------------------------ bounds
MaxLen == 3            \* longest ENABLED_EXCHANGES value drawn for the environment
NumThreads == 2        \* threads of the hosting process
NumManagers == 2       \* independent AMATNConfig instances
MaxCalls == 2          \* calls made in one run, by all threads together

Threads == 1..NumThreads
Managers == 1..NumManagers

\* Python's None, for a handle that is absent (ids of objects are 1, 2, ...).
None == 0

\* ----------------------------------------------------------------- strings
LowerAlpha == <<"a","b","c","d","e","f","g","h","i","j","k","l","m",
                "n","o","p","q","r","s","t","u","v","w","x","y","z">>
UpperAlpha == <<"A","B","C","D","E","F","G","H","I","J","K","L","M",
                "N","O","P","Q","R","S","T","U","V","W","X","Y","Z">>

UpperChar(c) ==
    IF \E i \in 1..Len(LowerAlpha) : LowerAlpha[i] = c
    THEN UpperAlpha[CHOOSE i \in 1..Len(LowerAlpha) : LowerAlpha[i] = c]
    ELSE c

\* str.upper()
Upper(s) == [i \in 1..Len(s) |-> UpperChar(s[i])]

\* str.split(','): the pieces between commas, empty pieces kept.
RECURSIVE Split(_)
Split(s) ==
    IF \E i \in 1..Len(s) : s[i] = ","
    THEN LET i == CHOOSE k \in 1..Len(s) :
                      s[k] = "," /\ \A j \in 1..(k - 1) : s[j] # ","
         IN  <<SubSeq(s, 1, i - 1)>> \o Split(SubSeq(s, i + 1, Len(s)))
    ELSE <<s>>

\* f"{exchange_id.upper()}_API_KEY" and f"{exchange_id.upper()}_SECRET"
ApiKeyVar(exchange_id) == Upper(exchange_id) \o <<"_","A","P","I","_","K","E","Y">>
SecretVar(exchange_id) == Upper(exchange_id) \o <<"_","S","E","C","R","E","T">>

EnabledExchangesVar ==
    <<"E","N","A","B","L","E","D","_","E","X","C","H","A","N","G","E","S">>
\* 'binance,coinbasepro,kraken'
DefaultExchanges ==
    <<"b","i","n","a","n","c","e",",",
      "c","o","i","n","b","a","s","e","p","r","o",",",
      "k","r","a","k","e","n">>

\* os.getenv(name, default): env is a function from the names that are set.
Getenv(env, name, default) == IF name \in DOMAIN env THEN env[name] ELSE default

\* ------------------------------------------------- _load_configuration
ExchangeConfig(exchange_id, api_key, secret) ==
    [exchange_id |-> exchange_id, api_key |-> api_key, secret |-> secret,
     enable_rate_limit |-> TRUE, timeout |-> 30000]

\* Slips of the test of line 81: the key alone, or either of the two.
HasCredentialsKeyOnly(api_key, secret) == api_key # <<>>
HasCredentialsEither(api_key, secret) == api_key # <<>> \/ secret # <<>>

\* if api_key and secret: (both non-empty)
HasCredentials(api_key, secret) == api_key # <<>> /\ secret # <<>>

\* self.exchanges[exchange_id] = ExchangeConfig(...) on a dict
DictSet(d, k, v) == [x \in DOMAIN d \cup {k} |-> IF x = k THEN v ELSE d[x]]

\* The loop of lines 74-86 over exchange_ids, from the dict built so far.
RECURSIVE LoadExchanges(_, _, _)
LoadExchanges(env, exchange_ids, acc) ==
    IF exchange_ids = <<>> THEN acc
    ELSE LET exchange_id == Head(exchange_ids)
             api_key == Getenv(env, ApiKeyVar(exchange_id), <<>>)
             secret == Getenv(env, SecretVar(exchange_id), <<>>)
             next == IF HasCredentials(api_key, secret)
                     THEN DictSet(acc, exchange_id,
                                  ExchangeConfig(exchange_id, api_key, secret))
                     ELSE acc
         IN  LoadExchanges(env, Tail(exchange_ids), next)

EmptyDict == [x \in {} |-> 0]

ExchangeIds(env) == Split(Getenv(env, EnabledExchangesVar, DefaultExchanges))

LoadedExchanges(env) == LoadExchanges(env, ExchangeIds(env), EmptyDict)
\* int(os.getenv(...)) and float(os.getenv(...)), lines 89-100: a value that
\* is not a number raises ValueError.  Decimal digits with at most one point
\* are numbers; the values drawn for the environment are of that form or
\* hold a letter.
Digits == {"0","1","2","3","4","5","6","7","8","9"}
IsInt(s) == s # <<>> /\ \A i \in 1..Len(s) : s[i] \in Digits
IsFloat(s) ==
    /\ \E i \in 1..Len(s) : s[i] \in Digits
    /\ \A i \in 1..Len(s) : s[i] \in Digits \cup {"."}
    /\ Cardinality({i \in 1..Len(s) : s[i] = "."}) <= 1

MaxPositionSizeVar == <<"M","A","X","_","P","O","S","I","T","I","O","N","_","S","I","Z","E">>
MaxDailyLossVar == <<"M","A","X","_","D","A","I","L","Y","_","L","O","S","S">>
RiskFreeRateVar == <<"R","I","S","K","_","F","R","E","E","_","R","A","T","E">>
MaxRetriesVar == <<"M","A","X","_","R","E","T","R","I","E","S">>
RetryDelayVar == <<"R","E","T","R","Y","_","D","E","L","A","Y">>
StrategyEvalPeriodVar ==
    <<"S","T","R","A","T","E","G","Y","_","E","V","A","L","_","P","E","R","I","O","D">>
MinBacktestPeriodVar ==
    <<"M","I","N","_","B","A","C","K","T","E","S","T","_","P","E","R","I","O","D">>

\* TRUE when none of the conversions of lines 89-100 raises.
NumbersParse(env) ==
    /\ IsFloat(Getenv(env, MaxPositionSizeVar, <<"0",".","1">>))
    /\ IsFloat(Getenv(env, MaxDailyLossVar, <<"0",".","0","2">>))
    /\ IsFloat(Getenv(env, RiskFreeRateVar, <<"0",".","0","2">>))
    /\ IsInt(Getenv(env, MaxRetriesVar, <<"3">>))
    /\ IsInt(Getenv(env, RetryDelayVar, <<"5">>))
    /\ IsInt(Getenv(env, StrategyEvalPeriodVar, <<"2","4">>))
    /\ IsInt(Getenv(env, MinBacktestPeriodVar, <<"7","2","0">>))

\* ------------------------------------------- validate_exchange_config
\* The value returned and the return statement that returned it.
ValidateExchangeResult(exchs, exchange_id) ==
    IF exchange_id \notin DOMAIN exchs
    THEN [value |-> FALSE, branch |-> "not_configured"]
    ELSE LET config == exchs[exchange_id]
         IN  IF config.api_key = <<>> \/ config.secret = <<>>
             THEN [value |-> FALSE, branch |-> "incomplete"]
             ELSE [value |-> TRUE, branch |-> "valid"]

\* ------------------------------------------------------------------ state
VARIABLES
    env,               \* os.environ: a function from the names that are set
    loaded,            \* config = AMATNConfig(): "unborn", "ok" (constructed), "failed"
    exchanges,         \* config.exchanges
    validated,         \* the last validate_exchange_config call and its result
    fileExists,        \* os.path.exists(credentials_path)
    apps,              \* firebase_admin._apps: None, or the registered app
    appsBuilt,         \* application handles constructed so far
    initAttempts,      \* calls of firebase_admin.initialize_app so far
    firebase_app,      \* per manager: self._firebase_app
    firestore_client,  \* per manager: self._firestore_client
    clientsBuilt,      \* client objects constructed so far (their ids)
    sdkClient,         \* the client the SDK holds for the app, if it keeps one
    clientCalls,       \* per manager: firestore.client calls that returned
    pc, mgr, op,       \* per thread: position, manager and operation called
    tmp,               \* per thread: the value a call returned, not yet stored
    outcome,           \* per thread: how its last call ended
    ret,               \* per thread: the client its last access returned
    entry,             \* per thread: its manager's _firebase_app when it called
    calls              \* calls made so far

configVars == <<env, loaded, exchanges, validated>>
sharedVars == <<fileExists, apps, appsBuilt, initAttempts, firebase_app,
                firestore_client, clientsBuilt, sdkClient, clientCalls>>
threadVars == <<pc, mgr, op, tmp, outcome, ret, entry, calls>>
vars == <<configVars, sharedVars, threadVars>>

\* __init__, lines 54-55: both handles absent; no thread has called anything.
InitHandles ==
    /\ apps = None
    /\ appsBuilt = 0
    /\ initAttempts = 0
    /\ firebase_app = [m \in Managers |-> None]
    /\ firestore_client = [m \in Managers |-> None]
    /\ clientsBuilt = 0
    /\ sdkClient = None
    /\ clientCalls = [m \in Managers |-> 0]
    /\ pc = [t \in Threads |-> "idle"]
    /\ mgr = [t \in Threads |-> 1]
    /\ op = [t \in Threads |-> "none"]
    /\ tmp = [t \in Threads |-> None]
    /\ outcome = [t \in Threads |-> "none"]
    /\ ret = [t \in Threads |-> None]
    /\ entry = [t \in Threads |-> None]
    /\ calls = 0

\* ------------------------------------------------- the environments drawn
RECURSIVE StringsUpTo(_, _)
StringsUpTo(alphabet, n) ==
    IF n = 0 THEN {<<>>}
    ELSE LET shorter == StringsUpTo(alphabet, n - 1)
         IN  shorter \cup {Append(s, c) : s \in shorter, c \in alphabet}

Unset == <<"unset">>
\* os.environ from a choice of value (or Unset) for each name.
MakeEnv(choices) ==
    LET set == {c \in choices : c.value # Unset}
    IN  [n \in {c.name : c \in set} |-> (CHOOSE c \in set : c.name = n).value]
Choice(name, value) == [name |-> name, value |-> value]
Kraken == <<"k","r","a","k","e","n">>
Environments ==
    {MakeEnv({Choice(EnabledExchangesVar, list),
              Choice(ApiKeyVar(<<"a">>), keyA), Choice(SecretVar(<<"a">>), secretA),
              Choice(ApiKeyVar(<<>>), other[1]), Choice(SecretVar(<<>>), other[2]),
              Choice(ApiKeyVar(Kraken), other[3]), Choice(SecretVar(Kraken), other[3]),
              Choice(MaxRetriesVar, other[4])}) :
        list \in StringsUpTo({"a", "A", ","}, MaxLen) \cup {Unset},
        keyA \in {Unset, <<>>, <<"k">>},
        secretA \in {Unset, <<>>, <<"s">>},
        other \in {Unset, <<"k","0">>} \X {Unset, <<"s","0">>}
                    \X {Unset, <<"k","2">>} \X {Unset, <<"x">>}}

\* The identifiers validate_exchange_config is asked about.
Range(s) == {s[i] : i \in 1..Len(s)}
QueryIds == Range(ExchangeIds(env)) \cup {<<"a">>, <<"z">>}

NoValidation == [called |-> FALSE, exchange_id |-> <<>>, value |-> FALSE, branch |-> "none"]

InitConfig ==
    /\ env \in Environments
    /\ loaded = "unborn"
    /\ exchanges = EmptyDict
    /\ validated = NoValidation
    /\ fileExists = TRUE
    /\ InitHandles

\* config = AMATNConfig(): __init__ runs _load_configuration; an exception of the
\* numeric conversions is logged and re-raised, and no manager results.
LoadConfiguration ==
    /\ loaded = "unborn"
    /\ exchanges' = LoadedExchanges(env)
    /\ loaded' = IF NumbersParse(env) THEN "ok" ELSE "failed"
    /\ UNCHANGED <<env, validated, sharedVars, threadVars>>

ValidateExchangeConfig(exchange_id) ==
    /\ loaded = "ok"
    /\ LET r == ValidateExchangeResult(exchanges, exchange_id)
       IN  validated' = [called |-> TRUE, exchange_id |-> exchange_id,
                         value |-> r.value, branch |-> r.branch]
    /\ UNCHANGED <<env, loaded, exchanges, sharedVars, threadVars>>

NextConfig ==
    \/ LoadConfiguration
    \/ \E exchange_id \in QueryIds : ValidateExchangeConfig(exchange_id)

SpecConfig == InitConfig /\ [][NextConfig]_vars
\* ----------------------------------------------- the Firebase handles
\* The managers of the backend specifications are constructed: this
\* environment lists one venue with both credentials.
BackendEnv ==
    MakeEnv({Choice(EnabledExchangesVar, <<"a">>),
             Choice(ApiKeyVar(<<"a">>), <<"k">>), Choice(SecretVar(<<"a">>), <<"s">>)})

Init ==
    /\ env = BackendEnv
    /\ loaded = "ok"
    /\ exchanges = LoadedExchanges(BackendEnv)
    /\ validated = NoValidation
    /\ fileExists \in BOOLEAN
    /\ InitHandles

InitErrors == {"FileNotFoundError", "CertificateError", "DuplicateAppError"}
Errors == InitErrors \cup {"ClientError"}

\* The positions of initialize_firebase and of the firestore_client property.
InitPcs == {"validate", "check_apps", "certificate", "initialize_app",
            "store_app", "get_app"}
ClientPcs == {"check_client", "check_app", "construct_client", "store_client",
              "return"}

\* A thread calls config.initialize_firebase() or reads config.firestore_client.
Call(t) ==
    /\ pc[t] = "idle"
    /\ loaded = "ok"
    /\ calls < MaxCalls
    /\ \E m \in Managers, o \in {"initialize_firebase", "firestore_client"} :
          /\ mgr' = [mgr EXCEPT ![t] = m]
          /\ op' = [op EXCEPT ![t] = o]
          /\ entry' = [entry EXCEPT ![t] = firebase_app[m]]
          /\ pc' = [pc EXCEPT ![t] = IF o = "initialize_firebase"
                                     THEN "validate" ELSE "check_client"]
    /\ calls' = calls + 1
    /\ outcome' = [outcome EXCEPT ![t] = "none"]
    /\ ret' = [ret EXCEPT ![t] = None]
    /\ tmp' = [tmp EXCEPT ![t] = None]
    /\ UNCHANGED <<configVars, sharedVars>>

\* A handler that drops the manager's application handle before re-raising.
RaiseDropsHandle(t, error) ==
    /\ pc' = [pc EXCEPT ![t] = "idle"]
    /\ outcome' = [outcome EXCEPT ![t] = error]
    /\ tmp' = [tmp EXCEPT ![t] = None]
    /\ firebase_app' = [firebase_app EXCEPT ![mgr[t]] = None]
    /\ UNCHANGED firestore_client

\* except Exception as e: log; raise (lines 128-130): the exception leaves
\* the call, and the accessor that made the call, and changes no handle.
Raise(t, error) ==
    /\ pc' = [pc EXCEPT ![t] = "idle"]
    /\ outcome' = [outcome EXCEPT ![t] = error]
    /\ tmp' = [tmp EXCEPT ![t] = None]
    /\ UNCHANGED <<firebase_app, firestore_client>>

\* initialize_firebase returns: to its caller, or into line 138 of the accessor.
InitReturns(t) ==
    /\ pc' = [pc EXCEPT ![t] = IF op[t] = "initialize_firebase"
                               THEN "idle" ELSE "construct_client"]
    /\ outcome' = [outcome EXCEPT ![t] = IF op[t] = "initialize_firebase"
                                         THEN "ok" ELSE "none"]
    /\ tmp' = [tmp EXCEPT ![t] = None]

\* The validation moved under the registry test: skipped once an application
\* is registered.
ValidateUnlessRegistered(t) ==
    /\ pc[t] = "validate"
    /\ IF fileExists \/ apps # None
       THEN /\ pc' = [pc EXCEPT ![t] = "check_apps"]
            /\ UNCHANGED <<outcome, tmp, firebase_app, firestore_client>>
       ELSE Raise(t, "FileNotFoundError")
    /\ UNCHANGED <<configVars, fileExists, apps, appsBuilt, initAttempts,
                   clientsBuilt, sdkClient, clientCalls, mgr, op, ret, entry, calls>>

\* Lines 111-112: if not self.firebase_config.validate(): raise FileNotFoundError
Validate(t) ==
    /\ pc[t] = "validate"
    /\ IF fileExists
       THEN /\ pc' = [pc EXCEPT ![t] = "check_apps"]
            /\ UNCHANGED <<outcome, tmp, firebase_app, firestore_client>>
       ELSE Raise(t, "FileNotFoundError")
    /\ UNCHANGED <<configVars, fileExists, apps, appsBuilt, initAttempts,
                   clientsBuilt, sdkClient, clientCalls, mgr, op, ret, entry, calls>>

\* The registry test inside a lock held until the handle is stored.
CheckAppsLocked(t) ==
    /\ pc[t] = "check_apps"
    /\ \A u \in Threads \ {t} :
          pc[u] \notin {"certificate", "initialize_app", "store_app", "get_app"}
    /\ pc' = [pc EXCEPT ![t] = IF apps = None THEN "certificate" ELSE "get_app"]
    /\ UNCHANGED <<configVars, sharedVars, mgr, op, tmp, outcome, ret, entry, calls>>

\* Line 114: if not firebase_admin._apps:
CheckApps(t) ==
    /\ pc[t] = "check_apps"
    /\ pc' = [pc EXCEPT ![t] = IF apps = None THEN "certificate" ELSE "get_app"]
    /\ UNCHANGED <<configVars, sharedVars, mgr, op, tmp, outcome, ret, entry, calls>>

\* Line 115: credentials.Certificate(path) reads the file: it raises when the
\* file is gone, and may raise when it is there (its content is not a key).
Certificate(t) ==
    /\ pc[t] = "certificate"
    /\ \/ /\ fileExists
          /\ pc' = [pc EXCEPT ![t] = "initialize_app"]
          /\ UNCHANGED <<outcome, tmp, firebase_app, firestore_client>>
       \/ Raise(t, "CertificateError")
    /\ UNCHANGED <<configVars, fileExists, apps, appsBuilt, initAttempts,
                   clientsBuilt, sdkClient, clientCalls, mgr, op, ret, entry, calls>>

\* Lines 116-122, the call: firebase_admin.initialize_app constructs the
\* application and registers it; the SDK raises ValueError when the default
\* application is registered already.
InitializeApp(t) ==
    /\ pc[t] = "initialize_app"
    /\ initAttempts' = initAttempts + 1
    /\ IF apps = None
       THEN /\ appsBuilt' = appsBuilt + 1
            /\ apps' = appsBuilt + 1
            /\ tmp' = [tmp EXCEPT ![t] = appsBuilt + 1]
            /\ pc' = [pc EXCEPT ![t] = "store_app"]
            /\ UNCHANGED <<outcome, firebase_app, firestore_client>>
       ELSE /\ Raise(t, "DuplicateAppError")
            /\ UNCHANGED <<apps, appsBuilt>>
    /\ UNCHANGED <<configVars, fileExists, clientsBuilt, sdkClient, clientCalls,
                   mgr, op, ret, entry, calls>>

\* Line 116, the assignment: self._firebase_app = <the application returned>
StoreApp(t) ==
    /\ pc[t] = "store_app"
    /\ firebase_app' = [firebase_app EXCEPT ![mgr[t]] = tmp[t]]
    /\ InitReturns(t)
    /\ UNCHANGED <<configVars, fileExists, apps, appsBuilt, initAttempts,
                   firestore_client, clientsBuilt, sdkClient, clientCalls,
                   mgr, op, ret, entry, calls>>

\* The else branch without its assignment: the registered application is
\* found and logged, and the manager's handle is left as it was.
GetAppForgets(t) ==
    /\ pc[t] = "get_app"
    /\ InitReturns(t)
    /\ UNCHANGED <<configVars, fileExists, apps, appsBuilt, initAttempts,
                   firebase_app, firestore_client, clientsBuilt, sdkClient,
                   clientCalls, mgr, op, ret, entry, calls>>

\* Line 125: self._firebase_app = firebase_admin.get_app()
GetApp(t) ==
    /\ pc[t] = "get_app"
    /\ firebase_app' = [firebase_app EXCEPT ![mgr[t]] = apps]
    /\ InitReturns(t)
    /\ UNCHANGED <<configVars, fileExists, apps, appsBuilt, initAttempts,
                   firestore_client, clientsBuilt, sdkClient, clientCalls,
                   mgr, op, ret, entry, calls>>

\* The accessor without its cache test: every access constructs.
CheckClientNoCache(t) ==
    /\ pc[t] = "check_client"
    /\ pc' = [pc EXCEPT ![t] = "check_app"]
    /\ UNCHANGED <<configVars, sharedVars, mgr, op, tmp, outcome, ret, entry, calls>>

\* The accessor inside a per-manager lock held from the test to the store.
CheckClientLocked(t) ==
    /\ pc[t] = "check_client"
    /\ \A u \in Threads \ {t} :
          ~(mgr[u] = mgr[t] /\ op[u] = "firestore_client"
              /\ pc[u] \notin {"idle", "check_client", "return"})
    /\ pc' = [pc EXCEPT ![t] = IF firestore_client[mgr[t]] = None
                               THEN "check_app" ELSE "return"]
    /\ UNCHANGED <<configVars, sharedVars, mgr, op, tmp, outcome, ret, entry, calls>>

\* Line 135: if self._firestore_client is None:
CheckClient(t) ==
    /\ pc[t] = "check_client"
    /\ pc' = [pc EXCEPT ![t] = IF firestore_client[mgr[t]] = None
                               THEN "check_app" ELSE "return"]
    /\ UNCHANGED <<configVars, sharedVars, mgr, op, tmp, outcome, ret, entry, calls>>

\* The accessor without lines 136-137: the client is constructed from
\* whatever self._firebase_app holds.
CheckAppSkipsInit(t) ==
    /\ pc[t] = "check_app"
    /\ pc' = [pc EXCEPT ![t] = "construct_client"]
    /\ UNCHANGED <<configVars, sharedVars, mgr, op, tmp, outcome, ret, entry, calls>>

\* Lines 136-137: if self._firebase_app is None: self.initialize_firebase()
CheckApp(t) ==
    /\ pc[t] = "check_app"
    /\ pc' = [pc EXCEPT ![t] = IF firebase_app[mgr[t]] = None
                               THEN "validate" ELSE "construct_client"]
    /\ UNCHANGED <<configVars, sharedVars, mgr, op, tmp, outcome, ret, entry, calls>>

\* Line 138, the call: firestore.client(self._firebase_app).  The SDK raises,
\* or returns a client: one it constructs, or the one it already holds for
\* the application (firestore.client(None) is the default application's, and
\* raises when there is none).
ConstructClient(t) ==
    /\ pc[t] = "construct_client"
    /\ \/ /\ Raise(t, "ClientError")
          /\ UNCHANGED <<clientsBuilt, sdkClient, clientCalls>>
       \/ /\ firebase_app[mgr[t]] # None \/ apps # None
          /\ \/ /\ clientsBuilt' = clientsBuilt + 1
                /\ tmp' = [tmp EXCEPT ![t] = clientsBuilt + 1]
                /\ sdkClient' = IF sdkClient = None THEN clientsBuilt + 1 ELSE sdkClient
             \/ /\ sdkClient # None
                /\ tmp' = [tmp EXCEPT ![t] = sdkClient]
                /\ UNCHANGED <<clientsBuilt, sdkClient>>
          /\ clientCalls' = [clientCalls EXCEPT ![mgr[t]] = @ + 1]
          /\ pc' = [pc EXCEPT ![t] = "store_client"]
          /\ UNCHANGED <<outcome, firebase_app, firestore_client>>
    /\ UNCHANGED <<configVars, fileExists, apps, appsBuilt, initAttempts,
                   mgr, op, ret, entry, calls>>

\* Line 138, the assignment: self._firestore_client = <the client returned>
StoreClient(t) ==
    /\ pc[t] = "store_client"
    /\ firestore_client' = [firestore_client EXCEPT ![mgr[t]] = tmp[t]]
    /\ pc' = [pc EXCEPT ![t] = "return"]
    /\ tmp' = [tmp EXCEPT ![t] = None]
    /\ UNCHANGED <<configVars, fileExists, apps, appsBuilt, initAttempts,
                   firebase_app, clientsBuilt, sdkClient, clientCalls,
                   mgr, op, outcome, ret, entry, calls>>

\* Line 139: return self._firestore_client
Return(t) ==
    /\ pc[t] = "return"
    /\ ret' = [ret EXCEPT ![t] = firestore_client[mgr[t]]]
    /\ outcome' = [outcome EXCEPT ![t] = "ok"]
    /\ pc' = [pc EXCEPT ![t] = "idle"]
    /\ UNCHANGED <<configVars, sharedVars, mgr, op, tmp, entry, calls>>

\* The credential file is removed or put back by something outside the process.
ToggleFile ==
    /\ fileExists' = ~fileExists
    /\ UNCHANGED <<configVars, apps, appsBuilt, initAttempts, firebase_app,
                   firestore_client, clientsBuilt, sdkClient, clientCalls, threadVars>>

\* One step of thread t inside a call.
Step(t) ==
    \/ Validate(t)
    \/ CheckApps(t)
    \/ Certificate(t)
    \/ InitializeApp(t)
    \/ StoreApp(t)
    \/ GetApp(t)
    \/ CheckClient(t)
    \/ CheckApp(t)
    \/ ConstructClient(t)
    \/ StoreClient(t)
    \/ Return(t)

\* Threads interleave at every read and write of a shared variable.
Next ==
    \/ \E t \in Threads : Call(t)
    \/ \E t \in Threads : Step(t)
    \/ ToggleFile

Spec == Init /\ [][Next]_vars

\* Calls that do not overlap: a thread moves only while every other is idle.
Alone(t) == \A u \in Threads \ {t} : pc[u] = "idle"

NextSeq ==
    \/ \E t \in Threads : Alone(t) /\ Call(t)
    \/ \E t \in Threads : Alone(t) /\ Step(t)
    \/ ToggleFile

SpecSeq == Init /\ [][NextSeq]_vars
\* ------------------------------------------------------------------ claims
\* What the claims say of the environment, stated without str.split: v is
\* listed when ",v," occurs in the list written between two commas.
ListValue == IF EnabledExchangesVar \in DOMAIN env
             THEN env[EnabledExchangesVar] ELSE DefaultExchanges
Padded(s) == <<",">> \o s \o <<",">>
Listed(v, s) ==
    /\ \A i \in 1..Len(v) : v[i] # ","
    /\ \E i \in 1..Len(Padded(s)) :
          /\ i + Len(v) + 1 <= Len(Padded(s))
          /\ SubSeq(Padded(s), i, i + Len(v) + 1) = Padded(v)
ListedVenues ==
    {v \in {SubSeq(ListValue, i, j) : i \in 1..(Len(ListValue) + 1),
                                       j \in 0..Len(ListValue)} :
        Listed(v, ListValue)}
SetNonEmpty(name) == name \in DOMAIN env /\ env[name] # <<>>
KeyName(v) == Upper(v) \o <<"_","A","P","I","_","K","E","Y">>
SecretName(v) == Upper(v) \o <<"_","S","E","C","R","E","T">>
CompleteVenues ==
    {v \in ListedVenues : SetNonEmpty(KeyName(v)) /\ SetNonEmpty(SecretName(v))}

\* C1: after a successful load, the credential mapping holds exactly the
\* venues listed in ENABLED_EXCHANGES whose <UPPER(v)>_API_KEY and
\* <UPPER(v)>_SECRET are both set and non-empty, each entry carrying v and
\* the two environment values; a listed venue missing either has no entry.
C1_CredentialMapping ==
    loaded = "ok" =>
        /\ DOMAIN exchanges = CompleteVenues
        /\ \A v \in CompleteVenues :
              /\ exchanges[v].exchange_id = v
              /\ exchanges[v].api_key = env[KeyName(v)]
              /\ exchanges[v].secret = env[SecretName(v)]

\* A load that stored one venue and left out a listed one missing a variable.
C1_Witness ==
    /\ loaded = "ok"
    /\ DOMAIN exchanges # {}
    /\ \E v \in ListedVenues : v \notin DOMAIN exchanges

\* C9: validate_exchange_config returns false for an identifier absent from
\* the mapping and true for one present, never through the
\* incomplete-credentials branch, since every stored entry has a non-empty
\* key and secret; and the call changes nothing of the manager.
C9_ValidateExchange ==
    /\ [](/\ validated.branch # "incomplete"
          /\ validated.called =>
                validated.value = (validated.exchange_id \in DOMAIN exchanges)
          /\ \A v \in DOMAIN exchanges :
                exchanges[v].api_key # <<>> /\ exchanges[v].secret # <<>>)
    /\ [][validated' # validated =>
             UNCHANGED <<env, loaded, exchanges, sharedVars, threadVars>>]_vars

\* A listed venue without credentials was asked about and reported false.
C9_Witness ==
    /\ validated.called
    /\ validated.exchange_id \in ListedVenues
    /\ validated.value = FALSE
    /\ DOMAIN exchanges # {}

\* A thread's last call was an access of firestore_client that returned.
Accessed(t) == pc[t] = "idle" /\ op[t] = "firestore_client" /\ outcome[t] = "ok"

\* C2: with calls that do not overlap, an access made once the client is
\* cached goes from the test of line 135 to the return: it initializes
\* nothing and constructs nothing, so a manager obtains at most one client,
\* and every access that returned gave the cached one.
C2_CachedClient ==
    /\ \A m \in Managers :
          /\ clientCalls[m] <= 1
          /\ firestore_client[m] # None => clientCalls[m] = 1
    /\ \A t \in Threads :
          /\ (op[t] = "firestore_client" /\ pc[t] \in (InitPcs \cup ClientPcs)
                 \ {"check_client", "return"})
                => firestore_client[mgr[t]] = None
          /\ Accessed(t) => ret[t] # None /\ ret[t] = firestore_client[mgr[t]]

\* Two accesses of one manager have returned, the second from the cache.
C2_Witness ==
    \E t, u \in Threads :
        /\ t # u /\ mgr[t] = mgr[u]
        /\ Accessed(t) /\ Accessed(u)
        /\ ret[t] = ret[u]
        /\ clientCalls[mgr[t]] = 1

\* Thread t's call fails in this step inside initialize_firebase.
InitFails(t) == pc[t] \in InitPcs /\ pc'[t] = "idle" /\ outcome'[t] \in InitErrors

\* C3, as claimed: the credential file is validated only when no application
\* is registered, so no call fails on the file while one is registered.
C3_AsClaimed ==
    [][\A t \in Threads :
          (pc[t] = "validate" /\ outcome'[t] = "FileNotFoundError") => apps = None]_vars

\* C3, amended: every call validates the credential file first, whether or
\* not an application is registered, and fails when the file is missing; a
\* call that passed the validation and finds an application registered sets
\* the manager's handle to it and constructs nothing.
C3_ValidatesAlways ==
    [][\A t \in Threads :
          /\ (pc[t] = "validate" /\ pc'[t] # "validate") =>
                IF fileExists
                THEN pc'[t] = "check_apps"
                ELSE pc'[t] = "idle" /\ outcome'[t] = "FileNotFoundError"
          /\ (pc[t] = "check_apps" /\ pc'[t] # "check_apps" /\ apps # None) =>
                pc'[t] = "get_app"
          /\ (pc[t] = "get_app" /\ pc'[t] # "get_app") =>
                /\ firebase_app'[mgr[t]] = apps /\ apps # None
                /\ apps' = apps /\ appsBuilt' = appsBuilt
                /\ initAttempts' = initAttempts
                /\ op[t] = "initialize_firebase" => outcome'[t] = "ok"]_vars

\* A call failed on the missing file although an application is registered.
C3_Witness ==
    \E t \in Threads :
        /\ pc[t] = "idle" /\ outcome[t] = "FileNotFoundError"
        /\ apps # None /\ ~fileExists
        /\ firebase_app[mgr[t]] = None

\* C4, as claimed: after a failing initialize the manager has no handle.
C4_AsClaimed ==
    [][\A t \in Threads : InitFails(t) => firebase_app'[mgr[t]] = None]_vars

\* C4, amended: with calls that do not overlap, a failing initialize leaves
\* the manager's handle as it was when the call was made: absent if it was
\* absent, the earlier application if an earlier call had succeeded.
C4_FailureKeepsHandle ==
    [][\A t \in Threads : InitFails(t) => firebase_app'[mgr[t]] = entry[t]]_vars

\* An initialize call failed on a manager that holds a handle.
C4_Witness ==
    \E t \in Threads :
        /\ pc[t] = "idle" /\ op[t] = "initialize_firebase"
        /\ outcome[t] \in InitErrors
        /\ entry[t] # None /\ firebase_app[mgr[t]] = entry[t]

\* C5: with calls that do not overlap, at most one application is ever
\* constructed, every handle a manager holds is the registered one, and a
\* manager whose call succeeded holds it.
C5_OneApplication ==
    /\ appsBuilt <= 1
    /\ \A m \in Managers : firebase_app[m] # None => firebase_app[m] = apps
    /\ \A t \in Threads :
          (pc[t] = "idle" /\ outcome[t] = "ok") =>
              apps # None /\ firebase_app[mgr[t]] = apps

\* Two managers have initialized and two initialize calls have succeeded.
C5_Witness ==
    \E t, u \in Threads :
        /\ mgr[t] # mgr[u]
        /\ pc[t] = "idle" /\ op[t] = "initialize_firebase" /\ outcome[t] = "ok"
        /\ pc[u] = "idle" /\ op[u] = "initialize_firebase" /\ outcome[u] = "ok"
        /\ firebase_app[mgr[t]] = firebase_app[mgr[u]]

\* C6: with calls that do not overlap, a handle that is present stays present
\* and bound to the same object in every later state.
C6_HandlesStay ==
    [][\A m \in Managers :
          /\ firebase_app[m] # None => firebase_app'[m] = firebase_app[m]
          /\ firestore_client[m] # None => firestore_client'[m] = firestore_client[m]]_vars

\* A manager still holds both handles after a later initialize call on it,
\* made while it held them, has failed.
C6_Witness ==
    \E t \in Threads :
        /\ firestore_client[mgr[t]] # None
        /\ firebase_app[mgr[t]] # None
        /\ pc[t] = "idle" /\ outcome[t] \in InitErrors /\ entry[t] # None

\* C7: the accessor takes no lock: a thread inside it can always take its
\* next step, wherever the other threads are; two first accesses of one
\* manager can then both construct, the later store replacing the earlier.
C7_UnguardedAccessor ==
    \A t \in Threads :
        (op[t] = "firestore_client" /\ pc[t] \in ClientPcs) => ENABLED Step(t)

\* Two accesses of one manager returned different clients; the cached one is
\* the second's.
C7_Witness ==
    \E t, u \in Threads :
        /\ t # u /\ mgr[t] = mgr[u]
        /\ Accessed(t) /\ Accessed(u)
        /\ ret[t] # ret[u]
        /\ firestore_client[mgr[t]] = ret[u]
        /\ clientCalls[mgr[t]] >= 2

\* C8: initialize_firebase takes no lock around the registry test: a thread
\* between the test and the construction can always take its next step,
\* wherever the other threads are; two calls can then both see no
\* application and both call initialize_app.
C8_UnguardedRegistry ==
    \A t \in Threads :
        pc[t] \in {"check_apps", "certificate", "initialize_app"} => ENABLED Step(t)

\* Both calls saw an empty registry and both called initialize_app; the
\* second was refused.
C8_Witness ==
    /\ initAttempts >= 2
    /\ \E t, u \in Threads :
          /\ t # u
          /\ outcome[t] = "DuplicateAppError"
          /\ firebase_app[mgr[u]] = apps /\ apps # None

\* Thread t's access fails in this step.
AccessFails(t) ==
    op[t] = "firestore_client" /\ pc[t] # "idle" /\ pc'[t] = "idle"
        /\ outcome'[t] \in Errors

\* C10: under any interleaving, a client is cached only on a manager whose
\* application handle is present, and a failing access stores no client.
C10_ClientNeedsApp ==
    /\ [](\A m \in Managers : firestore_client[m] # None => firebase_app[m] # None)
    /\ [][\A t \in Threads : AccessFails(t) => firestore_client' = firestore_client]_vars

\* An access of a manager failed, storing nothing, and another access of
\* that manager initialized it and returned the client it cached.
C10_Witness ==
    \E t, u \in Threads :
        /\ t # u /\ mgr[t] = mgr[u]
        /\ pc[t] = "idle" /\ op[t] = "firestore_client" /\ outcome[t] \in Errors
        /\ Accessed(u) /\ entry[u] = None
        /\ firestore_client[mgr[t]] # None
====
